---- MODULE Spec2Model ----
(***************************************************************************)
(* Caption Generator API (src/main.py).                                    *)
(*                                                                         *)
(* A Python str is a sequence of code points; each code point is a one-    *)
(* element TLA+ string, non-ASCII ones written "U+XXXX".  str.strip,       *)
(* str.split, str.isalpha, str.lower and str.join are computed on those    *)
(* sequences.  random.choice is a nondeterministic draw.  The handlers run *)
(* on the single asyncio event loop that uvicorn.run starts.               *)
(***************************************************************************)
EXTENDS Integers, Sequences, FiniteSets, TLC

VARIABLES
    req,      \* per client: the HTTP request being served, or NoReq
    pc,       \* per client: "idle", "queued", "create" or "done"
    draws,    \* per client: the random.choice draws of the variant loop
    variants, \* per client: the handler's local list `variants`
    resp,     \* per client: the HTTP response, or NoResp
    loop,     \* the client whose handler occupies the event loop, or NoClient
    store,    \* the "caption" collection: sequence of stored documents
    dbcall,   \* per client: outcome of the request's persistence call, or "none"
    dbUp,     \* whether `db` is not None
    args,     \* arguments of a direct call of a pure function, or NoArgs
    out       \* result of that call, or NoOut

vars == <<req, pc, draws, variants, resp, loop, store, dbcall, dbUp, args, out>>

----------------------------------------------------------------------------
(* Bounds of the model *)

\* longest topic enumerated over Alphabet
MaxTopicLen == 3
\* largest in-range variant count a client asks for
MaxVariants == 2
\* most documents the collection holds
MaxStore == 2

----------------------------------------------------------------------------
(* Python str operations *)

Whitespace == {" ", "\t", "\n", "\r", "\f"}

Uppers == <<"A","B","C","D","E","F","G","H","I","J","K","L","M",
            "N","O","P","Q","R","S","T","U","V","W","X","Y","Z">>

Lowers == <<"a","b","c","d","e","f","g","h","i","j","k","l","m",
            "n","o","p","q","r","s","t","u","v","w","x","y","z">>

Range(s) == {s[i] : i \in DOMAIN s}

Letters == Range(Uppers) \cup Range(Lowers)

Take(s, n) == SubSeq(s, 1, IF Len(s) < n THEN Len(s) ELSE n)

LowerChar(c) ==
    IF c \in Range(Uppers)
    THEN Lowers[CHOOSE i \in DOMAIN Uppers : Uppers[i] = c]
    ELSE c

lower(s) == [i \in DOMAIN s |-> LowerChar(s[i])]

isalpha(s) == s # <<>> /\ \A i \in DOMAIN s : s[i] \in Letters

RECURSIVE FirstKept(_, _)
FirstKept(s, i) ==
    IF i > Len(s) THEN i
    ELSE IF s[i] \notin Whitespace THEN i ELSE FirstKept(s, i + 1)

RECURSIVE LastKept(_, _)
LastKept(s, i) ==
    IF i < 1 THEN i
    ELSE IF s[i] \notin Whitespace THEN i ELSE LastKept(s, i - 1)

strip(s) ==
    LET lo == FirstKept(s, 1)
    IN  IF lo > Len(s) THEN <<>> ELSE SubSeq(s, lo, LastKept(s, Len(s)))

RECURSIVE SplitAcc(_, _, _, _)
SplitAcc(s, i, cur, acc) ==
    LET flushed == IF cur = <<>> THEN acc ELSE Append(acc, cur)
    IN  IF i > Len(s) THEN flushed
        ELSE IF s[i] \in Whitespace THEN SplitAcc(s, i + 1, <<>>, flushed)
        ELSE SplitAcc(s, i + 1, Append(cur, s[i]), acc)

split(s) == SplitAcc(s, 1, <<>>, <<>>)

RECURSIVE join(_, _)
join(sep, parts) ==
    IF parts = <<>> THEN <<>>
    ELSE IF Len(parts) = 1 THEN parts[1]
    ELSE parts[1] \o sep \o join(sep, Tail(parts))

Count(c, s) == Cardinality({i \in DOMAIN s : s[i] = c})

IsPrefixOf(p, s) == Len(p) <= Len(s) /\ SubSeq(s, 1, Len(p)) = p

----------------------------------------------------------------------------
(* Lookup tables *)

S_short ==
    <<"s","h","o","r","t">>

S_medium ==
    <<"m","e","d","i","u","m">>

S_long ==
    <<"l","o","n","g">>

S_friendly ==
    <<"f","r","i","e","n","d","l","y">>

S_professional ==
    <<"p","r","o","f","e","s","s","i","o","n","a","l">>

S_witty ==
    <<"w","i","t","t","y">>

S_bold ==
    <<"b","o","l","d">>

S_luxury ==
    <<"l","u","x","u","r","y">>

S_educational ==
    <<"e","d","u","c","a","t","i","o","n","a","l">>

S_casual ==
    <<"c","a","s","u","a","l">>

S_instagram ==
    <<"i","n","s","t","a","g","r","a","m">>

S_tiktok ==
    <<"t","i","k","t","o","k">>

S_twitter ==
    <<"t","w","i","t","t","e","r">>

S_linkedin ==
    <<"l","i","n","k","e","d","i","n">>

S_youtube ==
    <<"y","o","u","t","u","b","e">>

\* src/main.py:69-98. Each phrase and glyph is spelled out code point by code point.
TONE_STYLES ==
       S_friendly :> [
        prefixes |-> <<
            \* "Hey there!"
            <<"H","e","y"," ","t","h","e","r","e","!">>,
            \* "Fun fact:"
            <<"F","u","n"," ","f","a","c","t",":">>,
            \* "Guess what?"
            <<"G","u","e","s","s"," ","w","h","a","t","?">>,
            \* "PSA:"
            <<"P","S","A",":">>
        >>,
        emojis |-> <<<<"U+1F60A">>, <<"U+2728">>, <<"U+1F389">>, <<"U+1F680">>, <<"U+1F64C">>>> ]
    @@ S_professional :> [
        prefixes |-> <<
            \* "Pro tip:"
            <<"P","r","o"," ","t","i","p",":">>,
            \* "Insight:"
            <<"I","n","s","i","g","h","t",":">>,
            \* "Quick update:"
            <<"Q","u","i","c","k"," ","u","p","d","a","t","e",":">>,
            \* "Heads up:"
            <<"H","e","a","d","s"," ","u","p",":">>
        >>,
        emojis |-> <<<<"U+1F4BC">>, <<"U+1F4C8">>, <<"U+1F9E0">>, <<"U+2705">>>> ]
    @@ S_witty :> [
        prefixes |-> <<
            \* "Plot twist:"
            <<"P","l","o","t"," ","t","w","i","s","t",":">>,
            \* "Hot take:"
            <<"H","o","t"," ","t","a","k","e",":">>,
            \* "Low-key obsessed with:"
            <<"L","o","w","-","k","e","y"," ","o","b","s","e","s","s","e","d"," ","w","i","t",
              "h",":">>,
            \* "Unpopular opinion:"
            <<"U","n","p","o","p","u","l","a","r"," ","o","p","i","n","i","o","n",":">>
        >>,
        emojis |-> <<<<"U+1F60F">>, <<"U+1F525">>, <<"U+1F9E9">>, <<"U+1F609">>>> ]
    @@ S_bold :> [
        prefixes |-> <<
            \* "Say it louder:"
            <<"S","a","y"," ","i","t"," ","l","o","u","d","e","r",":">>,
            \* "No fluff:"
            <<"N","o"," ","f","l","u","f","f",":">>,
            \* "Real talk:"
            <<"R","e","a","l"," ","t","a","l","k",":">>,
            \* "Let<U+2019>s be honest:"
            <<"L","e","t","U+2019","s"," ","b","e"," ","h","o","n","e","s","t",":">>
        >>,
        emojis |-> <<<<"U+26A1">>, <<"U+1F525">>, <<"U+1F4A5">>, <<"U+1F3C6">>>> ]
    @@ S_luxury :> [
        prefixes |-> <<
            \* "Elevate:"
            <<"E","l","e","v","a","t","e",":">>,
            \* "Curated:"
            <<"C","u","r","a","t","e","d",":">>,
            \* "Crafted:"
            <<"C","r","a","f","t","e","d",":">>,
            \* "Exquisite:"
            <<"E","x","q","u","i","s","i","t","e",":">>
        >>,
        emojis |-> <<<<"U+2728">>, <<"U+1F4AB">>, <<"U+1F48E">>, <<"U+1F5A4">>>> ]
    @@ S_educational :> [
        prefixes |-> <<
            \* "Here<U+2019>s the breakdown:"
            <<"H","e","r","e","U+2019","s"," ","t","h","e"," ","b","r","e","a","k","d","o","w",
              "n",":">>,
            \* "Step-by-step:"
            <<"S","t","e","p","-","b","y","-","s","t","e","p",":">>,
            \* "3 things to know:"
            <<"3"," ","t","h","i","n","g","s"," ","t","o"," ","k","n","o","w",":">>,
            \* "Learn this:"
            <<"L","e","a","r","n"," ","t","h","i","s",":">>
        >>,
        emojis |-> <<<<"U+1F4DA">>, <<"U+1F4DD">>, <<"U+1F4A1">>, <<"U+1F50D">>>> ]
    @@ S_casual :> [
        prefixes |-> <<
            \* "Okay but listen:"
            <<"O","k","a","y"," ","b","u","t"," ","l","i","s","t","e","n",":">>,
            \* "So..."
            <<"S","o",".",".",".">>,
            \* "Not me doing:"
            <<"N","o","t"," ","m","e"," ","d","o","i","n","g",":">>,
            \* "Mood:"
            <<"M","o","o","d",":">>
        >>,
        emojis |-> <<<<"U+1F60C">>, <<"U+1F919">>, <<"U+1F44C">>, <<"U+2728">>>> ]

\* src/main.py:100-106
PLATFORM_HASHTAGS ==
       S_instagram :> <<
            <<"#","i","n","s","t","a","d","a","i","l","y">>,
            <<"#","t","r","e","n","d","i","n","g">>,
            <<"#","r","e","e","l","s">>,
            <<"#","e","x","p","l","o","r","e">>,
            <<"#","v","i","r","a","l">>
        >>
    @@ S_tiktok :> <<
            <<"#","f","y","p">>,
            <<"#","f","o","r","y","o","u">>,
            <<"#","t","i","k","t","o","k">>,
            <<"#","v","i","r","a","l">>,
            <<"#","t","r","e","n","d">>
        >>
    @@ S_twitter :> <<
            <<"#","N","o","w","P","l","a","y","i","n","g">>,
            <<"#","I","C","Y","M","I">>,
            <<"#","T","h","r","e","a","d">>,
            <<"#","V","i","b","e","s">>
        >>
    @@ S_linkedin :> <<
            <<"#","l","e","a","d","e","r","s","h","i","p">>,
            <<"#","g","r","o","w","t","h">>,
            <<"#","c","a","r","e","e","r","s">>,
            <<"#","m","a","r","k","e","t","i","n","g">>,
            <<"#","b","u","s","i","n","e","s","s">>
        >>
    @@ S_youtube :> <<
            <<"#","S","h","o","r","t","s">>,
            <<"#","C","r","e","a","t","o","r">>,
            <<"#","H","o","w","T","o">>,
            <<"#","B","e","h","i","n","d","T","h","e","S","c","e","n","e","s">>
        >>

\* src/main.py:108
GENERIC_HASHTAGS == <<
    <<"#","l","i","f","e">>,
    <<"#","c","r","e","a","t","i","v","e">>,
    <<"#","g","o","a","l","s">>,
    <<"#","i","n","s","p","o">>,
    <<"#","c","o","m","m","u","n","i","t","y">>,
    <<"#","c","o","n","t","e","n","t">>
    >>

\* "{topic} <U+2014> let<U+2019>s go!"
CoreShortTail ==
    <<" ","U+2014"," ","l","e","t","U+2019","s"," ","g","o","!">>

\* "{topic}. Here<U+2019>s why it matters and how you can make it work today. Save this for later!"
CoreLongTail ==
    <<"."," ","H","e","r","e","U+2019","s"," ","w","h","y"," ","i","t"," ","m","a","t","t","e",
      "r","s"," ","a","n","d"," ","h","o","w"," ","y","o","u"," ","c","a","n"," ","m","a","k",
      "e"," ","i","t"," ","w","o","r","k"," ","t","o","d","a","y","."," ","S","a","v","e"," ",
      "t","h","i","s"," ","f","o","r"," ","l","a","t","e","r","!">>

\* "{topic} done right. Screenshot this if you needed the nudge."
CoreMediumTail ==
    <<" ","d","o","n","e"," ","r","i","g","h","t","."," ","S","c","r","e","e","n","s","h","o",
      "t"," ","t","h","i","s"," ","i","f"," ","y","o","u"," ","n","e","e","d","e","d"," ","t",
      "h","e"," ","n","u","d","g","e",".">>

\* "coffee shop launch"
T_coffee == <<"c","o","f","f","e","e"," ","s","h","o","p"," ","l","a","u","n","c","h">>

\* "Life goals LIFE 2024"
T_life == <<"L","i","f","e"," ","g","o","a","l","s"," ","L","I","F","E"," ","2","0","2","4">>

\* "\t hi \n"
T_padded == <<"\t"," ","h","i"," ","\n">>

\* "Witty"
S_Witty == <<"W","i","t","t","y">>

\* "mystery"
S_mystery == <<"m","y","s","t","e","r","y">>

\* "TikTok"
S_TikTok == <<"T","i","k","T","o","k">>

\* "myspace"
S_myspace == <<"m","y","s","p","a","c","e">>

\* "LONG"
S_LONG == <<"L","O","N","G">>

\* "xl"
S_xl == <<"x","l">>

\* "abc"
Id_malformed == <<"a","b","c">>

\* "00000000000000000000000z"
Id_nothex == <<"0","0","0","0","0","0","0","0","0","0","0","0","0","0","0","0","0","0","0","0","0","0","0","z">>

\* "00000000000000000000000"
Id_prefix == <<"0","0","0","0","0","0","0","0","0","0","0","0","0","0","0","0","0","0","0","0","0","0","0">>
----------------------------------------------------------------------------
(* Hashtag Selector: suggest_hashtags, src/main.py:111-127 *)

TopicTag(w) == <<"#">> \o lower(w)

TopicTags(topic) ==
    LET words == SelectSeq(split(topic), isalpha)
    IN  Take([i \in DOMAIN words |-> TopicTag(words[i])], 3)

PlatformBase(platform) ==
    Take(IF platform \in DOMAIN PLATFORM_HASHTAGS
         THEN PLATFORM_HASHTAGS[platform] ELSE <<>>, 3)

GenericCount(length) == IF length = S_short THEN 3 ELSE 5

TagCap(length) ==
    IF length = S_short THEN 4 ELSE IF length = S_medium THEN 7 ELSE 10

\* the loop without the `seen` test
RECURSIVE UniqueLoop_noseen(_, _, _, _)
UniqueLoop_noseen(all_tags, i, unique, cap) ==
    IF i > Len(all_tags) THEN unique
    ELSE LET u == Append(unique, all_tags[i])
         IN  IF Len(u) >= cap THEN u ELSE UniqueLoop_noseen(all_tags, i + 1, u, cap)

\* the for loop of lines 121-126: append when unseen, break at the cap
RECURSIVE UniqueLoop(_, _, _, _)
UniqueLoop(all_tags, i, unique, cap) ==
    IF i > Len(all_tags) THEN unique
    ELSE LET t == all_tags[i]
             u == IF t \notin Range(unique) THEN Append(unique, t) ELSE unique
         IN  IF Len(u) >= cap THEN u ELSE UniqueLoop(all_tags, i + 1, u, cap)

\* the selector without the gate of lines 112-113
suggest_hashtags_ungated(topic, platform, include_hashtags, length) ==
    LET all_tags == TopicTags(topic) \o PlatformBase(platform)
                       \o Take(GENERIC_HASHTAGS, GenericCount(length))
    IN  join(<<" ">>, UniqueLoop(all_tags, 1, <<>>, TagCap(length)))

suggest_hashtags(topic, platform, include_hashtags, length) ==
    IF ~include_hashtags THEN <<>>
    ELSE LET all_tags == TopicTags(topic) \o PlatformBase(platform)
                            \o Take(GENERIC_HASHTAGS, GenericCount(length))
         IN  join(<<" ">>, UniqueLoop(all_tags, 1, <<>>, TagCap(length)))

----------------------------------------------------------------------------
(* Caption Assembler: choose and build_caption, src/main.py:130-152 *)

\* the draws random.choice(arr) can make; 0 stands for "no draw" on an empty list
DrawsOf(arr) == IF arr = <<>> THEN {0} ELSE DOMAIN arr

choose(arr, r) == IF arr # <<>> THEN arr[r] ELSE <<>>

\* the lookup with another default profile
ToneConf_casual(tone) ==
    IF tone \in DOMAIN TONE_STYLES THEN TONE_STYLES[tone] ELSE TONE_STYLES[S_casual]

ToneConf(tone) ==
    IF tone \in DOMAIN TONE_STYLES THEN TONE_STYLES[tone] ELSE TONE_STYLES[S_friendly]

Core(topic, length) ==
    IF length = S_short THEN topic \o CoreShortTail
    ELSE IF length = S_long THEN topic \o CoreLongTail
    ELSE topic \o CoreMediumTail

EmojiStr(emojis) ==
    IF emojis # <<>> THEN <<" ">> \o join(<<" ">>, Take(emojis, 2)) ELSE <<>>

HashtagStr(ht) == IF ht # <<>> THEN <<"\n", "\n">> \o ht ELSE <<>>

build_caption(topic, tone, platform, length, include_emojis, include_hashtags, r) ==
    LET tone_conf == ToneConf(tone)
        prefix == choose(tone_conf.prefixes, r)
        emojis == IF include_emojis THEN tone_conf.emojis ELSE <<>>
        ht == suggest_hashtags(topic, platform, include_hashtags, length)
    IN  strip(prefix \o <<" ">> \o Core(topic, length) \o EmojiStr(emojis) \o HashtagStr(ht))

----------------------------------------------------------------------------
(* Requests, responses and the document store *)

Clients == {"c1", "c2"}

NoClient == "none"

\* Python None where a str is expected
None == <<"None">>

NoReq == [kind |-> "none"]

NoResp == [status |-> 0]

NoArgs == [fn |-> "none"]

NoOut == <<"NoOut">>

\* GenerateRequest, src/main.py:155-162
TopicMinLength == 3

VariantsMin == 1

VariantsMax == 10

GenerateRequestValid(p) ==
    /\ Len(p.topic) >= TopicMinLength
    /\ p.variants >= VariantsMin
    /\ p.variants <= VariantsMax

\* the 422 FastAPI answers when the body fails GenerateRequest's validation
ValidationError == [status |-> 422, variants |-> <<>>, saved_id |-> None]

\* raise HTTPException(status_code=400, detail="Topic is required"), re-raised at 207-208
TopicRequired == [status |-> 400, variants |-> <<>>, saved_id |-> None]

\* the handler without the test of line 174
TopicMissing_never(topic) == FALSE

\* the test of line 174, on the stripped topic
TopicMissing(topic) == topic = <<>>

\* return {"variants": variants, "saved_id": saved_id}
GenerateResponse(vs, saved_id) == [status |-> 200, variants |-> vs, saved_id |-> saved_id]

\* the handler without the inner try: the exception reaches line 209-210
OnCreateException_propagated(vs) == [status |-> 500, variants |-> <<>>, saved_id |-> None]

\* except Exception: saved_id = None, then the return of line 206
OnCreateException(vs) == GenerateResponse(vs, None)

\* the loop running one iteration short
GenerateVariants_short(p, topic, d) ==
    [i \in 1..(p.variants - 1) |->
        build_caption(topic, lower(p.tone), lower(p.platform), lower(p.length),
                      p.include_emojis, p.include_hashtags, d[i])]

\* the loop of lines 177-187; d[i] is the draw of iteration i
GenerateVariants(p, topic, d) ==
    [i \in 1..p.variants |->
        build_caption(topic, lower(p.tone), lower(p.platform), lower(p.length),
                      p.include_emojis, p.include_hashtags, d[i])]

DrawSeqs(p) == [1..p.variants -> DrawsOf(ToneConf(lower(p.tone)).prefixes)]

\* the record of lines 191-201 (generated_at is the wall clock, not modelled)
Document(id, p, topic, vs) ==
    [_id |-> id, topic |-> topic, tone |-> p.tone, platform |-> p.platform,
     length |-> p.length, include_emojis |-> p.include_emojis,
     include_hashtags |-> p.include_hashtags, variants |-> vs,
     favorite |-> FALSE, favorite_index |-> -1]

HexDigits == {"0","1","2","3","4","5","6","7","8","9",
              "a","b","c","d","e","f","A","B","C","D","E","F"}

\* the identifiers the storage backend hands out: 24 lowercase hex digits
IdDigits == <<"a", "b", "c", "d", "e", "f">>

ObjectIdOf(n) == Id_prefix \o <<IdDigits[n]>>

\* create_document("caption", doc) when it returns: the new document's id as a str
create_document(docs) == ObjectIdOf(Len(docs) + 1)

\* bson.ObjectId(doc_id): 24 hex digits, compared by value (case-insensitive)
ObjectIdValid(s) == Len(s) = 24 /\ \A i \in DOMAIN s : s[i] \in HexDigits

ObjectId(s) == lower(s)

\* update_one({"_id": oid}, {"$set": {...}}): the first match is updated, no upsert
update_one(docs, oid, index) ==
    LET hits == {i \in DOMAIN docs : docs[i]._id = oid}
        first == CHOOSE i \in hits : \A j \in hits : i <= j
    IN  IF hits = {} THEN docs
        ELSE [docs EXCEPT ![first].favorite = TRUE, ![first].favorite_index = index]

FavoriteOk == [status |-> 200, ok |-> TRUE]

\* raise HTTPException(status_code=500, detail=...)
ServerError == [status |-> 500, ok |-> FALSE]

----------------------------------------------------------------------------
(* Inputs *)

Alphabet == {"a", "B", " ", "#"}

EnumTopics == UNION {[1..n -> Alphabet] : n \in 0..MaxTopicLen}

Tones == DOMAIN TONE_STYLES \cup {S_Witty, S_mystery}

Platforms == DOMAIN PLATFORM_HASHTAGS \cup {S_TikTok, S_myspace}

Lengths == {S_short, S_medium, S_long, S_LONG, S_xl}

VariantCounts == (0..MaxVariants) \cup {VariantsMax + 1}

GenerateReq(t, tn, pf, ln, em, ht, n) ==
    [kind |-> "generate", topic |-> t, tone |-> tn, platform |-> pf, length |-> ln,
     include_emojis |-> em, include_hashtags |-> ht, variants |-> n]

\* every enumerated topic with the default tone, platform and length
TopicRequests ==
    {GenerateReq(t, S_friendly, S_instagram, S_medium, TRUE, ht, 1) :
        t \in EnumTopics \cup {T_padded, T_life}, ht \in BOOLEAN}

\* every variant count with one topic
CountRequests ==
    {GenerateReq(t, S_friendly, S_instagram, S_medium, TRUE, TRUE, n) :
        t \in {T_coffee, <<" ", " ", " ">>}, n \in VariantCounts}

\* every tone, platform and length with one topic
StyleRequests ==
    {GenerateReq(T_coffee, tn, pf, ln, em, ht, 1) :
        tn \in Tones, pf \in {S_instagram, S_TikTok, S_myspace}, ln \in Lengths,
        em \in BOOLEAN, ht \in BOOLEAN}

GenerateRequests == TopicRequests \cup CountRequests \cup StyleRequests

ServerGenerateRequests ==
    {GenerateReq(t, S_Witty, S_instagram, S_short, TRUE, TRUE, 1) :
        t \in {T_coffee, <<" ", " ", " ">>}}

FavoriteIds ==
    {ObjectIdOf(n) : n \in 1..(MaxStore + 1)}
        \cup {Id_prefix \o <<"A">>, Id_malformed, Id_nothex}

FavoriteRequests ==
    {[kind |-> "favorite", doc_id |-> id, index |-> ix] : id \in FavoriteIds, ix \in {0, 1}}

----------------------------------------------------------------------------
(* The server *)

InFlight == {c \in Clients : pc[c] \in {"queued", "create"} /\ req[c].kind = "generate"}

\* a client sends a request
Submit(c) ==
    /\ pc[c] = "idle"
    /\ \E r \in ServerGenerateRequests \cup FavoriteRequests :
          /\ r.kind = "generate" => Len(store) + Cardinality(InFlight) < MaxStore
          /\ req' = [req EXCEPT ![c] = r]
    /\ pc' = [pc EXCEPT ![c] = "queued"]
    /\ UNCHANGED <<draws, variants, resp, loop, store, dbcall, dbUp, args, out>>

\* POST /api/generate up to the call of create_document, src/main.py:170-202.
\* The handler is a coroutine without an await: it keeps the event loop until
\* it returns, the blocking create_document call included.
Dispatch(c) ==
    /\ pc[c] = "queued"
    /\ req[c].kind = "generate"
    /\ loop = NoClient
    /\ LET p == req[c]
           topic == strip(p.topic)
       IN  IF ~GenerateRequestValid(p)
           THEN /\ resp' = [resp EXCEPT ![c] = ValidationError]
                /\ pc' = [pc EXCEPT ![c] = "done"]
                /\ UNCHANGED <<draws, variants, loop>>
           ELSE IF TopicMissing(topic)
           THEN /\ resp' = [resp EXCEPT ![c] = TopicRequired]
                /\ pc' = [pc EXCEPT ![c] = "done"]
                /\ UNCHANGED <<draws, variants, loop>>
           ELSE /\ \E d \in DrawSeqs(p) :
                      /\ draws' = [draws EXCEPT ![c] = d]
                      /\ variants' = [variants EXCEPT ![c] = GenerateVariants(p, topic, d)]
                /\ pc' = [pc EXCEPT ![c] = "create"]
                /\ loop' = c
                /\ UNCHANGED resp
    /\ UNCHANGED <<req, store, dbcall, dbUp, args, out>>

\* create_document returns, src/main.py:202 and 206
CreateOk(c) ==
    /\ pc[c] = "create"
    /\ loop = c
    /\ dbUp
    /\ Len(store) < MaxStore
    /\ LET id == create_document(store)
       IN  /\ store' = Append(store, Document(id, req[c], strip(req[c].topic), variants[c]))
           /\ resp' = [resp EXCEPT ![c] = GenerateResponse(variants[c], id)]
    /\ dbcall' = [dbcall EXCEPT ![c] = "ok"]
    /\ pc' = [pc EXCEPT ![c] = "done"]
    /\ loop' = NoClient
    /\ UNCHANGED <<req, draws, variants, dbUp, args, out>>

\* create_document raises, src/main.py:203-206
CreateFail(c) ==
    /\ pc[c] = "create"
    /\ loop = c
    /\ resp' = [resp EXCEPT ![c] = OnCreateException(variants[c])]
    /\ dbcall' = [dbcall EXCEPT ![c] = "raised"]
    /\ pc' = [pc EXCEPT ![c] = "done"]
    /\ loop' = NoClient
    /\ UNCHANGED <<req, draws, variants, store, dbUp, args, out>>

\* POST /api/captions/{doc_id}/favorite, src/main.py:231-240
Favorite(c) ==
    /\ pc[c] = "queued"
    /\ req[c].kind = "favorite"
    /\ loop = NoClient
    /\ LET r == req[c]
       IN  IF ~dbUp \/ ~ObjectIdValid(r.doc_id)
           THEN /\ resp' = [resp EXCEPT ![c] = ServerError]
                /\ UNCHANGED <<store, dbcall>>
           ELSE \/ /\ store' = update_one(store, ObjectId(r.doc_id), r.index)
                   /\ resp' = [resp EXCEPT ![c] = FavoriteOk]
                   /\ dbcall' = [dbcall EXCEPT ![c] = "ok"]
                \/ /\ resp' = [resp EXCEPT ![c] = ServerError]
                   /\ dbcall' = [dbcall EXCEPT ![c] = "raised"]
                   /\ UNCHANGED store
    /\ pc' = [pc EXCEPT ![c] = "done"]
    /\ UNCHANGED <<req, draws, variants, loop, dbUp, args, out>>

\* the client has read the response and may send another request
Reset(c) ==
    /\ pc[c] = "done"
    /\ pc' = [pc EXCEPT ![c] = "idle"]
    /\ req' = [req EXCEPT ![c] = NoReq]
    /\ resp' = [resp EXCEPT ![c] = NoResp]
    /\ draws' = [draws EXCEPT ![c] = <<>>]
    /\ variants' = [variants EXCEPT ![c] = <<>>]
    /\ dbcall' = [dbcall EXCEPT ![c] = "none"]
    /\ UNCHANGED <<loop, store, dbUp, args, out>>

Quiet ==
    /\ draws = [c \in Clients |-> <<>>]
    /\ variants = [c \in Clients |-> <<>>]
    /\ resp = [c \in Clients |-> NoResp]
    /\ dbcall = [c \in Clients |-> "none"]
    /\ loop = NoClient
    /\ store = <<>>
    /\ args = NoArgs
    /\ out = NoOut

\* one generate request, drawn from GenerateRequests, served start to finish
Init ==
    /\ \E r \in GenerateRequests : req = [c \in Clients |-> IF c = "c1" THEN r ELSE NoReq]
    /\ pc = [c \in Clients |-> IF c = "c1" THEN "queued" ELSE "off"]
    /\ dbUp \in BOOLEAN
    /\ Quiet

Next == \E c \in Clients : Dispatch(c) \/ CreateOk(c) \/ CreateFail(c)

Spec == Init /\ [][Next]_vars

\* two clients sending generate and favorite requests to one server
InitServer ==
    /\ req = [c \in Clients |-> NoReq]
    /\ pc = [c \in Clients |-> "idle"]
    /\ dbUp \in BOOLEAN
    /\ Quiet

NextServer ==
    \E c \in Clients :
        Submit(c) \/ Dispatch(c) \/ CreateOk(c) \/ CreateFail(c) \/ Favorite(c) \/ Reset(c)

SpecServer == InitServer /\ [][NextServer]_vars

----------------------------------------------------------------------------
(* Direct calls of the pure functions *)

NoServer ==
    /\ req = [c \in Clients |-> NoReq]
    /\ pc = [c \in Clients |-> "off"]
    /\ draws = [c \in Clients |-> <<>>]
    /\ variants = [c \in Clients |-> <<>>]
    /\ resp = [c \in Clients |-> NoResp]
    /\ dbcall = [c \in Clients |-> "none"]
    /\ loop = NoClient
    /\ store = <<>>
    /\ dbUp = FALSE

SuggestArgs ==
    {[fn |-> "suggest_hashtags", topic |-> t, platform |-> pf,
      include_hashtags |-> ht, length |-> ln] :
        t \in EnumTopics \cup {T_coffee, T_life, T_padded}, pf \in Platforms,
        ht \in BOOLEAN, ln \in Lengths}

InitTags == args \in SuggestArgs /\ out = NoOut /\ NoServer

CallSuggestHashtags ==
    /\ args.fn = "suggest_hashtags"
    /\ out = NoOut
    /\ out' = suggest_hashtags(args.topic, args.platform, args.include_hashtags, args.length)
    /\ UNCHANGED <<req, pc, draws, variants, resp, loop, store, dbcall, dbUp, args>>

NextTags == CallSuggestHashtags

SpecTags == InitTags /\ [][NextTags]_vars

BuildArgs ==
    {[fn |-> "build_caption", topic |-> t, tone |-> tn, platform |-> pf, length |-> ln,
      include_emojis |-> em, include_hashtags |-> ht] :
        t \in {T_coffee, T_life, T_padded, <<"a", "#", "B">>, <<>>},
        tn \in {S_witty, S_mystery}, pf \in {S_instagram, S_myspace}, ln \in Lengths,
        em \in BOOLEAN, ht \in BOOLEAN}

InitCaption == args \in BuildArgs /\ out = NoOut /\ NoServer

CallBuildCaption ==
    /\ args.fn = "build_caption"
    /\ out = NoOut
    /\ \E r \in DrawsOf(ToneConf(args.tone).prefixes) :
          out' = build_caption(args.topic, args.tone, args.platform, args.length,
                               args.include_emojis, args.include_hashtags, r)
    /\ UNCHANGED <<req, pc, draws, variants, resp, loop, store, dbcall, dbUp, args>>

NextCaption == CallBuildCaption

SpecCaption == InitCaption /\ [][NextCaption]_vars

----------------------------------------------------------------------------
(* Properties *)

Generating == {c \in Clients : req[c].kind = "generate"}

Answered == {c \in Generating : pc[c] = "done"}

KnownLengths == {S_short, S_medium, S_long}

NoDuplicates(s) == \A i, j \in DOMAIN s : s[i] = s[j] => i = j

\* C1: a generate request that passes validation (topic of at least 3 characters
\* and non-empty once stripped, variants in 1..10) is answered 200, and the
\* variants list holds exactly `variants` captions, the i-th being the caption
\* built with the i-th draw; no other request is answered 200.
C1_VariantCount ==
    \A c \in Answered :
        LET p == req[c]
            r == resp[c]
        IN  /\ r.status = 200 <=>
                  (/\ Len(p.topic) >= 3
                   /\ p.variants \in 1..10
                   /\ strip(p.topic) # <<>>)
            /\ r.status = 200 =>
                  /\ Len(r.variants) = p.variants
                  /\ \A i \in 1..p.variants :
                        r.variants[i] =
                            build_caption(strip(p.topic), lower(p.tone), lower(p.platform),
                                          lower(p.length), p.include_emojis,
                                          p.include_hashtags, draws[c][i])

\* C1 witness: a request for two variants answered with two different captions
C1_Witness ==
    \E c \in Answered :
        /\ resp[c].status = 200
        /\ req[c].variants = 2
        /\ Len(resp[c].variants) = 2
        /\ resp[c].variants[1] # resp[c].variants[2]

\* C2: when create_document raises, the request is still answered 200 with all
\* the generated variants and saved_id null.
C2_PersistenceFailureAbsorbed ==
    \A c \in Answered :
        dbcall[c] = "raised" =>
            /\ resp[c].status = 200
            /\ resp[c].saved_id = None
            /\ resp[c].variants = variants[c]
            /\ Len(resp[c].variants) = req[c].variants

\* C2 witness: a failed create call behind a 200 answer that carries variants
C2_Witness ==
    \E c \in Answered :
        /\ dbcall[c] = "raised"
        /\ resp[c].status = 200
        /\ resp[c].saved_id = None
        /\ Len(resp[c].variants) >= 1

Blank(c) == strip(req[c].topic) = <<>>

NothingGenerated(c) ==
    /\ pc[c] # "create"
    /\ variants[c] = <<>>
    /\ draws[c] = <<>>
    /\ dbcall[c] = "none"
    /\ store = <<>>

\* C3 as stated: a generate request whose stripped topic is empty is answered
\* 400, no variant is generated and no record is persisted (read in its most
\* favourable way: the request asks for 1..10 variants).
C3_BlankTopicIs400 ==
    \A c \in Generating :
        (Blank(c) /\ req[c].variants \in 1..10) =>
            /\ NothingGenerated(c)
            /\ pc[c] = "done" => resp[c].status = 400

\* C3 amended: a generate request whose stripped topic is empty is rejected, no
\* variant is generated and no record is persisted; the answer is 400 when the
\* body passes the request model (topic of at least 3 characters, variants in
\* 1..10) and 422 when it does not.
C3_BlankTopicRejected ==
    \A c \in Generating :
        Blank(c) =>
            /\ NothingGenerated(c)
            /\ pc[c] = "done" =>
                  resp[c].status =
                      IF Len(req[c].topic) >= 3 /\ req[c].variants \in 1..10
                      THEN 400 ELSE 422

\* C3 witness: a topic of three spaces answered 400
C3_Witness ==
    \E c \in Answered :
        /\ req[c].topic = <<" ", " ", " ">>
        /\ req[c].variants = 1
        /\ resp[c].status = 400

\* C4 as stated: every request for which variants are produced has a topic of
\* at least 3 characters once stripped.
C4_AcceptedTopicMin3 ==
    \A c \in Generating :
        (variants[c] # <<>> \/ (pc[c] = "done" /\ resp[c].status = 200)) =>
            Len(strip(req[c].topic)) >= 3

\* C5 as stated: with include_hashtags false no returned variant contains "#".
C5_NoHashAtAll ==
    \A c \in Answered :
        (resp[c].status = 200 /\ ~req[c].include_hashtags) =>
            \A i \in DOMAIN resp[c].variants : "#" \notin Range(resp[c].variants[i])

\* C5 amended: with include_hashtags false a returned variant contains no "#"
\* other than those of the stripped topic, which is inserted verbatim.
C5_NoHashBeyondTopic ==
    \A c \in Answered :
        (resp[c].status = 200 /\ ~req[c].include_hashtags) =>
            \A i \in DOMAIN resp[c].variants :
                Count("#", resp[c].variants[i]) = Count("#", strip(req[c].topic))

\* C5 witness: a 200 answer to a request with include_hashtags false whose
\* topic carries a "#"
C5_Witness ==
    \E c \in Answered :
        /\ resp[c].status = 200
        /\ ~req[c].include_hashtags
        /\ Count("#", req[c].topic) = 1
        /\ Count("#", resp[c].variants[1]) = 1

\* C6: with the gate true and length short, medium or long, the hashtag line
\* holds no tag twice and at most 4, 7 or 10 tags respectively.
C6_HashtagLineBounded ==
    (args.fn = "suggest_hashtags" /\ out # NoOut
        /\ args.include_hashtags /\ args.length \in KnownLengths) =>
        LET tags == split(out)
        IN  /\ NoDuplicates(tags)
            /\ Len(tags) <= (IF args.length = S_short THEN 4
                             ELSE IF args.length = S_medium THEN 7 ELSE 10)

\* C6 witness: a line for length long that the break of line 126 cut at 10 tags
C6_Witness ==
    /\ args.fn = "suggest_hashtags"
    /\ out # NoOut
    /\ args.include_hashtags
    /\ args.length = S_long
    /\ Len(split(out)) = 10

CaptionSet(a) ==
    {build_caption(a.topic, a.tone, a.platform, a.length,
                   a.include_emojis, a.include_hashtags, r) :
        r \in DrawsOf(ToneConf(a.tone).prefixes)}

\* C7 as stated: with a length other than short, medium or long, build_caption
\* can produce exactly the captions it can produce with length medium.
C7_UnknownLengthIsMedium ==
    (args.fn = "build_caption" /\ out # NoOut /\ args.length \notin KnownLengths) =>
        /\ out \in CaptionSet([args EXCEPT !.length = S_medium])
        /\ CaptionSet(args) = CaptionSet([args EXCEPT !.length = S_medium])

\* C8: every returned variant starts with a prefix of the resolved tone (the
\* friendly profile when the lowercased tone is no key of the table), a space,
\* and the template of the lowercased length filled with the stripped topic.
C8_PrefixAndBody ==
    \A c \in Answered :
        resp[c].status = 200 =>
            LET topic == strip(req[c].topic)
                tone == lower(req[c].tone)
                length == lower(req[c].length)
                profile == IF tone \in DOMAIN TONE_STYLES THEN tone ELSE S_friendly
                body == topic \o (IF length = S_short THEN CoreShortTail
                                  ELSE IF length = S_long THEN CoreLongTail
                                  ELSE CoreMediumTail)
            IN  \A i \in DOMAIN resp[c].variants :
                    \E j \in DOMAIN TONE_STYLES[profile].prefixes :
                        IsPrefixOf(TONE_STYLES[profile].prefixes[j] \o <<" ">> \o body,
                                   resp[c].variants[i])

\* C8 witness: a 200 answer to a request whose tone is no key of the table
C8_Witness ==
    \E c \in Answered :
        /\ resp[c].status = 200
        /\ req[c].tone = S_mystery
        /\ req[c].length = S_LONG
        /\ IsPrefixOf(TONE_STYLES[S_friendly].prefixes[4] \o <<" ">> \o T_coffee \o CoreLongTail,
                      resp[c].variants[1])

Favoriting == {c \in Clients : req[c].kind = "favorite"}

Stored(id) == \E i \in DOMAIN store : store[i]._id = ObjectId(id)

\* C9 as stated: a favorite request whose identifier is well formed and matches
\* no stored record is not answered with success.
C9_MissingIdFails ==
    \A c \in Favoriting :
        (pc[c] = "done" /\ dbUp /\ ObjectIdValid(req[c].doc_id) /\ ~Stored(req[c].doc_id)) =>
            resp[c].status # 200

\* C10 as stated: while one generate request waits in its create call, another
\* queued generate request can be taken up by the server.
C10_NotSerialized ==
    \A c, d \in Generating :
        (c # d /\ pc[c] = "create" /\ pc[d] = "queued") => ENABLED Dispatch(d)

====
